---- MODULE Spec2Model ----
(***************************************************************************)
(* GeoJSON -> file geodatabase conversion (geojson_utils.py, gj_to_fc.py)  *)
(* and the merge step of the GeoPackage variant (gj_to_gpkg_foss.py).      *)
(*                                                                         *)
(* Python values are modelled as tagged records, dictionaries that keep    *)
(* insertion order as sequences of <<key, value>> pairs, and str keys as    *)
(* sequences of code points, so that sorted() and str.replace() are        *)
(* computed and not assumed.                                               *)
(***************************************************************************)
EXTENDS Integers, Sequences, FiniteSets, TLC

VARIABLES
    files,    \* the parsed content of the input files, in search order
    pc,       \* position of the script
    err,      \* the exception that ended the script, "" when none
    json_in,  \* the merged collection mg, which the GeoJSONUtils object holds
    data,     \* what build_schema returned to the script
    tables,   \* feature classes this run created, in creation order
    rebuilt,  \* what build_schema returned to each make_fc call
    stats     \* what make_features returned to the script

vars == <<files, pc, err, json_in, data, tables, rebuilt, stats>>

(***************************************************************************)
(* Bounds of the model.                                                    *)
(***************************************************************************)
MaxFiles == 2

MaxFeatures == 2

MaxProps == 2

(***************************************************************************)
(* Python values.                                                          *)
(***************************************************************************)
PyNone == [py |-> "NoneType"]

PyFalse == [py |-> "bool", b |-> FALSE]

PyInt(i) == [py |-> "int", n |-> i]

PyStr(t) == [py |-> "str", s |-> t]

Digit(d) == <<"0", "1", "2", "3", "4", "5", "6", "7", "8", "9">>[d + 1]

RECURSIVE IntToStr(_)
IntToStr(i) == IF i < 10 THEN Digit(i) ELSE IntToStr(i \div 10) \o Digit(i % 10)

\* str(v) of a property value
Str(v) ==
    CASE v.py = "int" -> IntToStr(v.n)
      [] v.py = "str" -> v.s
      [] v.py = "bool" -> (IF v.b THEN "True" ELSE "False")
      [] v.py = "NoneType" -> "None"

(***************************************************************************)
(* str keys as code points: "_" is 95, " " is 32, "a" is 97, "b" is 98.    *)
(***************************************************************************)
Underscore == 95

Space == 32

\* k.replace('_', ' ')
Replace(k) == [i \in 1..Len(k) |-> IF k[i] = Underscore THEN Space ELSE k[i]]

\* a < b for two str values (comparison by code point, shorter prefix first)
RECURSIVE StrLess(_, _)
StrLess(a, b) ==
    IF Len(b) = 0 THEN FALSE
    ELSE IF Len(a) = 0 THEN TRUE
    ELSE IF a[1] # b[1] THEN a[1] < b[1]
    ELSE StrLess(Tail(a), Tail(b))

\* sorted(list of str), as an insertion sort
RECURSIVE InsertStr(_, _)
InsertStr(x, s) ==
    IF Len(s) = 0 THEN <<x>>
    ELSE IF StrLess(x, Head(s)) THEN <<x>> \o s
    ELSE <<Head(s)>> \o InsertStr(x, Tail(s))

RECURSIVE Sorted(_)
Sorted(s) ==
    IF Len(s) = 0 THEN <<>>
    ELSE InsertStr(s[Len(s)], Sorted(SubSeq(s, 1, Len(s) - 1)))

\* sorted(props.items()): the keys of a dict are distinct, so the key decides
RECURSIVE InsertItem(_, _)
InsertItem(x, s) ==
    IF Len(s) = 0 THEN <<x>>
    ELSE IF StrLess(x[1], Head(s)[1]) THEN <<x>> \o s
    ELSE <<Head(s)>> \o InsertItem(x, Tail(s))

\* faulty variant: the items in the dict's insertion order
ItemsUnsorted(props) == props

RECURSIVE SortedItems(_)
SortedItems(props) ==
    IF Len(props) = 0 THEN <<>>
    ELSE InsertItem(props[Len(props)], SortedItems(SubSeq(props, 1, Len(props) - 1)))

\* props.keys()
Keys(props) == {props[i][1] : i \in 1..Len(props)}

\* x in list
InList(x, s) == \E i \in 1..Len(s) : s[i] = x

(***************************************************************************)
(* Input domains.                                                          *)
(***************************************************************************)
\* "b", "a_b", "a": sorted() puts them in the order "a", "a_b", "b"
FieldNames == {<<98>>, <<97, 95, 98>>, <<97>>}

\* the value a feature gives to a field: an int, a null and a str
ValueOf(k) ==
    IF k = <<98>> THEN PyInt(17) ELSE IF k = <<97>> THEN PyStr("x") ELSE PyNone

GeoTypes == {"Point", "LineString", "MultiLineString", "Polygon", "MultiPolygon", "MultiPoint"}

\* geometry payloads: well formed of every type, and one without its 'type' key
Geometries ==
    {[type |-> t, coordinates |-> "xy"] : t \in GeoTypes} \cup {[coordinates |-> "xy"]}

SeqsUpTo(n, S) == UNION {[1..k -> S] : k \in 0..n}

\* dicts of at most MaxProps items, in every insertion order
PropDicts ==
    {[i \in 1..Len(ks) |-> <<ks[i], ValueOf(ks[i])>>] :
        ks \in {q \in SeqsUpTo(MaxProps, FieldNames) :
                   \A i, j \in 1..Len(q) : i # j => q[i] # q[j]}}

\* features of every geometry, all with the one property "b"
GeomFeatures ==
    {[geometry |-> g, properties |-> <<<<<<98>>, PyInt(17)>>>>] : g \in Geometries}

\* point features of every property dict, and a polygon without properties
PropFeatures ==
    {[geometry |-> [type |-> "Point", coordinates |-> "xy"], properties |-> p] :
        p \in PropDicts}
    \cup {[geometry |-> [type |-> "Polygon", coordinates |-> "xy"], properties |-> <<>>]}

FeatureCollection(feats) == [type |-> "FeatureCollection", features |-> feats]

\* cut a feature list into consecutive files of the given lengths
RECURSIVE Split(_, _)
Split(feats, lens) ==
    IF Len(lens) = 0 THEN <<>>
    ELSE <<FeatureCollection(SubSeq(feats, 1, Head(lens)))>>
         \o Split(SubSeq(feats, Head(lens) + 1, Len(feats)), Tail(lens))

RECURSIVE Sum(_)
Sum(s) == IF Len(s) = 0 THEN 0 ELSE Head(s) + Sum(Tail(s))

(***************************************************************************)
(* merge_geojson                                                           *)
(***************************************************************************)
\* faulty variant: each later file's features are put in front of the base's
RECURSIVE AppendAllFront(_, _)
AppendAllFront(base, rest) ==
    IF Len(rest) = 0 THEN base
    ELSE AppendAllFront([base EXCEPT !.features = Head(rest).features \o base.features],
                        Tail(rest))

\* for feat in gj_list[1:]: for f in feat['features']: base.append(f)
RECURSIVE AppendAll(_, _)
AppendAll(base, rest) ==
    IF Len(rest) = 0 THEN base
    ELSE AppendAll([base EXCEPT !.features = base.features \o Head(rest).features],
                   Tail(rest))

\* faulty variant: an empty list of files gives an empty collection
merge_geojson_lenient(fs) ==
    IF Len(fs) = 0
    THEN [raised |-> "", ret |-> [type |-> "FeatureCollection", features |-> <<>>]]
    ELSE [raised |-> "", ret |-> AppendAll(fs[1], Tail(fs))]

\* json.load gives a fresh object per file, so the base aliases no later entry
merge_geojson(fs) ==
    IF Len(fs) = 0
    THEN [raised |-> "IndexError", ret |-> PyNone]
    ELSE [raised |-> "", ret |-> AppendAll(fs[1], Tail(fs))]

merge_geojson_foss(fs) ==
    IF Len(fs) = 0
    THEN [raised |-> "IndexError", ret |-> PyNone]
    ELSE [raised |-> "", ret |-> AppendAll(fs[1], Tail(fs))]

(***************************************************************************)
(* parse_geometry                                                          *)
(***************************************************************************)
\* arcpy.AsShape: builds the engine geometry of a payload; a payload without
\* one of its keys raises the KeyError that parse_geometry is written to catch.
\* MultiPoint is a type AsShape builds and parse_geometry does not know.
AsShape(gj_geom) ==
    IF {"type", "coordinates"} \subseteq DOMAIN gj_geom
    THEN [raised |-> "", ret |-> [esri |-> gj_geom]]
    ELSE [raised |-> "KeyError", ret |-> PyNone]

parse_geometry(gj_geom) ==
    LET shape == AsShape(gj_geom) IN
    IF shape.raised = "KeyError" THEN PyFalse
    ELSE IF gj_geom.type = "Point"
         THEN [type |-> "POINT", esri_geom |-> shape.ret]
    ELSE IF gj_geom.type \in {"LineString", "MultiLineString"}
         THEN [type |-> "POLYLINE", esri_geom |-> shape.ret]
    ELSE IF gj_geom.type \in {"Polygon", "MultiPolygon"}
         THEN [type |-> "POLYGON", esri_geom |-> shape.ret]
    ELSE PyFalse

\* x['type'] works on a dict; on the bool that parse_geometry returns for a
\* geometry it could not classify it raises TypeError
Subscriptable(x) == "py" \notin DOMAIN x

(***************************************************************************)
(* build_schema                                                            *)
(***************************************************************************)
\* for k, v in props.items(): if k not in fields: fields.append(k)
RECURSIVE CollectKeys(_, _)
CollectKeys(fields, props) ==
    IF Len(props) = 0 THEN fields
    ELSE CollectKeys(IF InList(Head(props)[1], fields)
                     THEN fields ELSE Append(fields, Head(props)[1]),
                     Tail(props))

\* first loop over the features
RECURSIVE FirstPass(_, _)
FirstPass(fields, feats) ==
    IF Len(feats) = 0 THEN fields
    ELSE FirstPass(CollectKeys(fields, Head(feats).properties), Tail(feats))

\* faulty variant: missing keys are not filled in
BackfillNothing(props, fields) == props

\* for f in fields: if f not in props.keys(): props[f] = ''
RECURSIVE Backfill(_, _)
Backfill(props, fields) ==
    IF Len(fields) = 0 THEN props
    ELSE Backfill(IF Head(fields) \in Keys(props)
                  THEN props ELSE Append(props, <<Head(fields), PyStr("")>>),
                  Tail(fields))

FieldLength == 256

schema_row(k) == <<k, "TEXT", Replace(k), FieldLength>>

\* faulty variant: every key is appended, known or not
RECURSIVE AddDefsNoDedup(_, _)
AddDefsNoDedup(field_defs, props) ==
    IF Len(props) = 0 THEN field_defs
    ELSE AddDefsNoDedup(Append(field_defs, schema_row(Head(props)[1])), Tail(props))

\* for k, v in props.items(): if schema_row not in field_defs: append
RECURSIVE AddDefs(_, _)
AddDefs(field_defs, props) ==
    IF Len(props) = 0 THEN field_defs
    ELSE AddDefs(IF InList(schema_row(Head(props)[1]), field_defs)
                 THEN field_defs ELSE Append(field_defs, schema_row(Head(props)[1])),
                 Tail(props))

\* row = [str(v) for k, v in sorted(props.items())]
MakeRow(props) == [j \in 1..Len(props) |-> Str(SortedItems(props)[j][2])]

\* bucket of a classified geometry; every type that is neither POINT nor
\* POLYLINE falls to the polygon list
Bucket(geotype) ==
    IF geotype = "POINT" THEN 1 ELSE IF geotype = "POLYLINE" THEN 2 ELSE 3

\* second loop over the features, from feature i on; st carries the features
\* (backfilled in place), field_defs and the three row lists
RECURSIVE SecondPass(_, _, _)
SecondPass(st, i, fields) ==
    IF i > Len(st.features) THEN st
    ELSE LET geom == st.features[i].geometry
             filled == Backfill(st.features[i].properties, fields)
             props == SortedItems(filled)
             defs == AddDefs(st.field_defs, props)
             row == MakeRow(props)
             parsed_geom == parse_geometry(geom)
             feats == [st.features EXCEPT ![i].properties = filled]
         IN IF ~Subscriptable(parsed_geom)
            THEN [st EXCEPT !.features = feats, !.field_defs = defs,
                            !.raised = "TypeError"]
            ELSE LET b == Bucket(parsed_geom.type)
                     full == <<parsed_geom.esri_geom>> \o row
                 IN SecondPass([st EXCEPT !.features = feats, !.field_defs = defs,
                                          !.rows[b] = Append(@, full)],
                               i + 1, fields)

\* the return statement of build_schema; st is the state the second loop
\* ended in, and json the collection with its features backfilled in place
SchemaResult(json, fields, st) ==
    [raised |-> st.raised,
     ret |-> IF st.raised = ""
             THEN [fields |-> fields, field_defs |-> st.field_defs, rows |-> st.rows]
             ELSE PyNone,
     json |-> [json EXCEPT !.features = st.features]]

SchemaPasses(json, fields) ==
    SchemaResult(json, fields,
                 SecondPass([features |-> json.features, field_defs |-> <<>>,
                             rows |-> <<<<>>, <<>>, <<>>>>, raised |-> ""], 1, fields))

build_schema(json) == SchemaPasses(json, FirstPass(<<>>, json.features))

(***************************************************************************)
(* make_fc, make_features                                                  *)
(***************************************************************************)
\* faulty variant: the first refused row ends the loop
RECURSIVE InsertRowsAbort(_, _, _, _)
InsertRowsAbort(cur, rows, j, rejects) ==
    IF j > Len(rows) THEN cur
    ELSE IF j \in rejects THEN [cur EXCEPT !.passed = Append(@, rows[j])]
    ELSE InsertRowsAbort([passed |-> Append(cur.passed, rows[j]),
                          inserted |-> Append(cur.inserted, rows[j])],
                         rows, j + 1, rejects)

\* the cursor loop: every row goes to insertRow; a row of `rejects` makes
\* insertRow raise RuntimeError, which the loop catches
RECURSIVE InsertRows(_, _, _, _)
InsertRows(cur, rows, j, rejects) ==
    IF j > Len(rows) THEN cur
    ELSE InsertRows([passed |-> Append(cur.passed, rows[j]),
                     inserted |-> IF j \in rejects
                                  THEN cur.inserted ELSE Append(cur.inserted, rows[j])],
                    rows, j + 1, rejects)

\* a feature class as CreateFeatureclass and AddFields leave it
NewTable(fc_name, geotype, fields) ==
    [name |-> fc_name, geotype |-> geotype, fields |-> fields,
     field_map |-> <<>>, passed |-> <<>>, inserted |-> <<>>]

\* make_fc from the insert cursor on; schema is what build_schema returned
FillTable(s, fc_name, fields, rows, geotype, geotoken, rejects, schema, cur) ==
    [raised |-> "",
     ret |-> [name |-> fc_name, rows |-> Len(rows)],
     s |-> [json |-> schema.json,
            rebuilt |-> Append(s.rebuilt, schema.ret),
            tables |-> Append(s.tables,
                              [NewTable(fc_name, geotype, fields) EXCEPT
                                  !.field_map = <<geotoken>> \o Sorted(schema.ret.fields),
                                  !.passed = cur.passed,
                                  !.inserted = cur.inserted])]]

\* make_fc once the feature class is created
CreateAndFill(s, fc_name, fields, rows, geotype, geotoken, rejects, schema) ==
    IF schema.raised # ""
    THEN [raised |-> schema.raised, ret |-> PyNone,
          s |-> [s EXCEPT !.json = schema.json,
                          !.tables = Append(@, NewTable(fc_name, geotype, fields))]]
    ELSE FillTable(s, fc_name, fields, rows, geotype, geotoken, rejects, schema,
                   InsertRows([passed |-> <<>>, inserted |-> <<>>], rows, 1, rejects))

\* s is the object and the workspace: json, tables, rebuilt.  exists is the
\* answer of arcpy.Exists(fc_name), rejects the rows the cursor refuses.
\* Without a table to create the function falls off its end and returns None.
make_fc(s, gdb, fc_name, fields, rows, geotype, geotoken, exists, rejects) ==
    IF exists
    THEN [raised |-> "", ret |-> PyNone, s |-> s]
    ELSE CreateAndFill(s, fc_name, fields, rows, geotype, geotoken, rejects,
                       build_schema(s.json))

Suffixes == <<"_p", "_l", "_a">>

EsriTypes == <<"POINT", "POLYLINE", "POLYGON">>

GeoTokens == <<"SHAPE@XY", "SHAPE@", "SHAPE@">>

\* rows of the buckets before bucket b: the cursor's rows are numbered through
\* the three buckets, so that each row can be refused on its own
Offset(rows, b) == Sum([k \in 1..(b - 1) |-> Len(rows[k])])

\* stats.append(fc) after a make_fc call that returned
AppendStat(r, fc) ==
    [raised |-> fc.raised, s |-> fc.s,
     ret |-> IF fc.raised = "" THEN Append(r.ret, fc.ret) ELSE r.ret]

\* faulty variant: the block runs for an empty bucket too
BlockAlways(r, b, gdb, fc_name, fields, rows, now, exists, fails) ==
    IF r.raised # "" THEN r
    ELSE AppendStat(r, make_fc(r.s, gdb, fc_name \o now \o Suffixes[b], fields, rows[b],
                               EsriTypes[b], GeoTokens[b],
                               b \in DOMAIN exists /\ exists[b],
                               {j \in 1..Len(rows[b]) : Offset(rows, b) + j \in fails}))

\* one `if len(rows[b]) > 0:` block of make_features; r is the result so far
Block(r, b, gdb, fc_name, fields, rows, now, exists, fails) ==
    IF r.raised # "" \/ Len(rows[b]) = 0 THEN r
    ELSE AppendStat(r, make_fc(r.s, gdb, fc_name \o now \o Suffixes[b], fields, rows[b],
                               EsriTypes[b], GeoTokens[b], exists[b],
                               {j \in 1..Len(rows[b]) : Offset(rows, b) + j \in fails}))

make_features(s, gdb, fc_name, fields, rows, now, exists, fails) ==
    Block(Block(Block([raised |-> "", s |-> s, ret |-> <<>>],
                      1, gdb, fc_name, fields, rows, now, exists, fails),
                2, gdb, fc_name, fields, rows, now, exists, fails),
          3, gdb, fc_name, fields, rows, now, exists, fails)

(***************************************************************************)
(* The scripts.                                                            *)
(***************************************************************************)
out_fc_name == "gj_out"

gdb_out == "C:/Temp/converted_json.gdb"

\* GeoJSONUtils.timestamp() of the run
Timestamps == {"20200602T120000"}

\* the state before the script's first statement, but for the input files
Start ==
    /\ pc = "start"
    /\ err = ""
    /\ json_in = PyNone
    /\ data = PyNone
    /\ tables = <<>>
    /\ rebuilt = <<>>
    /\ stats = <<>>

\* at most MaxFiles files holding at most MaxFeatures features between them,
\* of every geometry
Init ==
    /\ \E feats \in SeqsUpTo(MaxFeatures, GeomFeatures) :
       \E lens \in SeqsUpTo(MaxFiles, 0..MaxFeatures) :
          /\ Sum(lens) = Len(feats)
          /\ files = Split(feats, lens)
    /\ Start

\* one file of at most MaxFeatures features, of every property dict
InitProps ==
    /\ \E feats \in SeqsUpTo(MaxFeatures, PropFeatures) :
          files = <<FeatureCollection(feats)>>
    /\ Start

\* gj_to_fc.py: mg = gj.merge_geojson(gj_files); parsed = gj(mg)
Merge ==
    /\ pc = "start"
    /\ \E m \in {merge_geojson(files)} :
         /\ json_in' = m.ret
         /\ err' = m.raised
         /\ pc' = IF m.raised = "" THEN "merged" ELSE "error"
    /\ UNCHANGED <<files, data, tables, rebuilt, stats>>

\* gj_to_gpkg_foss.py: mg = merge_geojson(gjl), then handed to geopandas
FossMerge ==
    /\ pc = "start"
    /\ \E m \in {merge_geojson_foss(files)} :
         /\ json_in' = m.ret
         /\ err' = m.raised
         /\ pc' = IF m.raised = "" THEN "foss_merged" ELSE "error"
    /\ UNCHANGED <<files, data, tables, rebuilt, stats>>

\* data = parsed.build_schema()
BuildSchema ==
    /\ pc = "merged"
    /\ \E b \in {build_schema(json_in)} :
         /\ json_in' = b.json
         /\ data' = b.ret
         /\ err' = b.raised
         /\ pc' = IF b.raised = "" THEN "schema" ELSE "error"
    /\ UNCHANGED <<files, tables, rebuilt, stats>>

TotalRows(rows) == Len(rows[1]) + Len(rows[2]) + Len(rows[3])

\* out_features = parsed.make_features(gdb, out_fc_name, field_defs, rows)
MakeFeatures ==
    /\ pc = "schema"
    /\ \E now \in Timestamps,
          exists \in [{b \in 1..3 : Len(data.rows[b]) > 0} -> BOOLEAN],
          fails \in SUBSET (1..TotalRows(data.rows)) :
         \E r \in {make_features([json |-> json_in, tables |-> tables, rebuilt |-> rebuilt],
                                 gdb_out, out_fc_name, data.field_defs, data.rows,
                                 now, exists, fails)} :
            /\ json_in' = r.s.json
            /\ tables' = r.s.tables
            /\ rebuilt' = r.s.rebuilt
            /\ stats' = r.ret
            /\ err' = r.raised
            /\ pc' = IF r.raised = "" THEN "written" ELSE "error"
    /\ UNCHANGED <<files, data>>

\* for result in out_features: print(result['name'], result['rows'])
Report ==
    /\ pc = "written"
    /\ IF \A i \in 1..Len(stats) : Subscriptable(stats[i])
       THEN pc' = "done" /\ err' = ""
       ELSE pc' = "error" /\ err' = "TypeError"
    /\ UNCHANGED <<files, json_in, data, tables, rebuilt, stats>>

Next == Merge \/ FossMerge \/ BuildSchema \/ MakeFeatures \/ Report

Spec == Init /\ [][Next]_vars

SpecProps == InitProps /\ [][Next]_vars

(***************************************************************************)
(* Vocabulary of the properties: the input as the files hold it, which no  *)
(* operation changes, and the geometry category the specification gives.   *)
(***************************************************************************)
RECURSIVE Flatten(_)
Flatten(fs) == IF Len(fs) = 0 THEN <<>> ELSE Head(fs).features \o Flatten(Tail(fs))

InputFeatures == Flatten(files)

\* 1 point, 2 polyline, 3 polygon, 0 for a geometry that has no category
Category(g) ==
    IF ~({"type", "coordinates"} \subseteq DOMAIN g) THEN 0
    ELSE IF g.type = "Point" THEN 1
    ELSE IF g.type \in {"LineString", "MultiLineString"} THEN 2
    ELSE IF g.type \in {"Polygon", "MultiPolygon"} THEN 3
    ELSE 0

\* the input features of category b, by their index, in input order
IndicesOf(b) ==
    LET InB(i) == Category(InputFeatures[i].geometry) = b
    IN SelectSeq([i \in 1..Len(InputFeatures) |-> i], InB)

AllSupported == \A i \in 1..Len(InputFeatures) : Category(InputFeatures[i].geometry) # 0

InputKeys == UNION {Keys(InputFeatures[i].properties) : i \in 1..Len(InputFeatures)}

Lookup(props, k) == props[CHOOSE i \in 1..Len(props) : props[i][1] = k][2]

IsAscending(names) == \A i \in 1..(Len(names) - 1) : StrLess(names[i], names[i + 1])

\* build_schema has been called on a merged collection
SchemaRan == pc \in {"schema", "written", "done"} \/ (pc = "error" /\ Len(files) > 0)

NonEmptyBuckets == SelectSeq(<<1, 2, 3>>, LAMBDA b : Len(data.rows[b]) > 0)

TableNames(b) == {out_fc_name \o now \o Suffixes[b] : now \in Timestamps}

(***************************************************************************)
(* C1: after merge_geojson returns, the features of the result are the     *)
(* features of the input files, file after file and in each file's order:  *)
(* feature j of file k sits at position (features of the files before k)   *)
(* + j, and the length is the sum of the files' lengths.                   *)
(***************************************************************************)
FileOffset(k) == Sum([i \in 1..(k - 1) |-> Len(files[i].features)])

C1_MergeConcatenates ==
    pc \in {"merged", "foss_merged"} =>
        /\ Len(json_in.features) = Sum([k \in 1..Len(files) |-> Len(files[k].features)])
        /\ \A k \in 1..Len(files) : \A j \in 1..Len(files[k].features) :
              json_in.features[FileOffset(k) + j] = files[k].features[j]

\* a file merged with itself: two features out of one
C1_Witness ==
    /\ pc = "merged"
    /\ Len(files) = 2
    /\ files[1] = files[2]
    /\ Len(files[1].features) = 1
    /\ Len(json_in.features) = 2

(***************************************************************************)
(* C2: when every feature has a supported geometry, the fields that        *)
(* build_schema returns hold no name twice and are exactly the property    *)
(* keys of the input features, and every row of every bucket has           *)
(* len(fields) + 1 entries.                                                *)
(***************************************************************************)
C2_UnifiedFields ==
    (pc = "schema" /\ AllSupported) =>
        /\ \A i, j \in 1..Len(data.fields) : i # j => data.fields[i] # data.fields[j]
        /\ {data.fields[i] : i \in 1..Len(data.fields)} = InputKeys
        /\ \A b \in 1..3 : \A r \in 1..Len(data.rows[b]) :
              Len(data.rows[b][r]) = Len(data.fields) + 1

\* two features whose key sets are disjoint and not empty
C2_Witness ==
    /\ pc = "schema"
    /\ Len(InputFeatures) = 2
    /\ Keys(InputFeatures[1].properties) # {}
    /\ Keys(InputFeatures[2].properties) # {}
    /\ Keys(InputFeatures[1].properties) \cap Keys(InputFeatures[2].properties) = {}
    /\ Len(data.rows[1]) = 2

(***************************************************************************)
(* C3: in every row of build_schema, the entry after the geometry at       *)
(* position i + 1 is the text of the source feature's value for the i-th   *)
(* name of the ascending field list, or "" when the feature has no such    *)
(* key; and the field map make_fc gives the insert cursor is the geometry  *)
(* token followed by that same ascending list.                             *)
(***************************************************************************)
C3_RowsFollowSortedFields ==
    (data # PyNone) =>
        /\ IsAscending(Sorted(data.fields))
        /\ \A b \in 1..3 : \A r \in 1..Len(data.rows[b]) :
              \A i \in 1..Len(data.fields) :
                 LET name == Sorted(data.fields)[i]
                     props == InputFeatures[IndicesOf(b)[r]].properties
                 IN data.rows[b][r][i + 1] =
                       IF name \in Keys(props) THEN Str(Lookup(props, name)) ELSE ""
        /\ \A k \in 1..Len(tables) :
              /\ tables[k].field_map[1] \in {"SHAPE@XY", "SHAPE@"}
              /\ Tail(tables[k].field_map) = Sorted(data.fields)
              /\ \A r \in 1..Len(tables[k].passed) :
                    Len(tables[k].passed[r]) = Len(tables[k].field_map)

\* a table was filled from rows of a feature whose properties came in another
\* order than the key order, and of a feature that lacked a field
C3_Witness ==
    /\ pc = "written"
    /\ \E k \in 1..Len(tables) : Len(tables[k].passed) = 2
    /\ \E i \in 1..Len(InputFeatures) :
          LET props == InputFeatures[i].properties
          IN ~IsAscending([j \in 1..Len(props) |-> props[j][1]])
    /\ \E i \in 1..Len(InputFeatures) :
          Len(InputFeatures[i].properties) < Len(data.fields)

(***************************************************************************)
(* C4: once build_schema has run, the point bucket holds one row for each  *)
(* Point feature of the input, the polyline bucket one row for each        *)
(* LineString or MultiLineString feature, the polygon bucket one row for   *)
(* each Polygon or MultiPolygon feature, in input order, each with the     *)
(* geometry of its feature, and no other row.                              *)
(***************************************************************************)
C4_GeometryBuckets ==
    SchemaRan =>
        /\ data # PyNone
        /\ \A b \in 1..3 :
              /\ Len(data.rows[b]) = Len(IndicesOf(b))
              /\ \A r \in 1..Len(data.rows[b]) :
                    data.rows[b][r][1] = [esri |-> InputFeatures[IndicesOf(b)[r]].geometry]

(***************************************************************************)
(* C5: when the input holds a feature whose geometry has an unknown type   *)
(* or lacks a key, build_schema still returns, the run goes on, and the    *)
(* buckets hold exactly one row for every other feature.                   *)
(***************************************************************************)
C5_BadGeometryDropped ==
    (SchemaRan /\ ~AllSupported) =>
        /\ pc # "error"
        /\ data # PyNone
        /\ TotalRows(data.rows) =
              Cardinality({i \in 1..Len(InputFeatures) :
                              Category(InputFeatures[i].geometry) # 0})

(***************************************************************************)
(* C6: every later run of build_schema on the collection (the one each     *)
(* make_fc call makes, on the features the first run backfilled) returns   *)
(* the field_defs of the first run, and these hold exactly one definition  *)
(* <<name, "TEXT", name with "_" replaced by " ", 256>> for each field.     *)
(***************************************************************************)
C6_FieldDefsIdempotent ==
    (data # PyNone) =>
        /\ \A k \in 1..Len(rebuilt) : rebuilt[k].field_defs = data.field_defs
        /\ Len(data.field_defs) = Len(data.fields)
        /\ \A i \in 1..Len(data.fields) :
              Cardinality({j \in 1..Len(data.field_defs) :
                              data.field_defs[j] =
                                 <<data.fields[i], "TEXT", Replace(data.fields[i]), 256>>}) = 1

\* a second run happened, on features the first run had to backfill
C6_Witness ==
    /\ pc = "written"
    /\ Len(rebuilt) > 0
    /\ Len(data.field_defs) >= 2
    /\ \E i \in 1..Len(InputFeatures) :
          Len(json_in.features[i].properties) > Len(InputFeatures[i].properties)

(***************************************************************************)
(* C7: merge_geojson on an empty list of files raises (IndexError, at      *)
(* gj_list[0]): the script ends in error and no collection is returned.    *)
(***************************************************************************)
C7_EmptyInputFails ==
    (Len(files) = 0 /\ pc # "start") =>
        /\ pc = "error"
        /\ err = "IndexError"
        /\ json_in = PyNone

C7_Witness == Len(files) = 0 /\ pc = "error"

(***************************************************************************)
(* C8: a bucket without rows gets no table: no feature class of its name   *)
(* or its geometry type is created.                                        *)
(***************************************************************************)
C8_EmptyBucketNoTable ==
    (data # PyNone) =>
        \A b \in 1..3 : Len(data.rows[b]) = 0 =>
            \A k \in 1..Len(tables) :
                /\ tables[k].name \notin TableNames(b)
                /\ tables[k].geotype # EsriTypes[b]

\* a run without point rows that did create a table
C8_Witness ==
    /\ pc = "written"
    /\ Len(data.rows[1]) = 0
    /\ Len(tables) > 0

(***************************************************************************)
(* C9: whatever rows the cursor refuses, every row of the bucket is passed *)
(* to insertRow, in order, the rows not refused are inserted, and make_fc  *)
(* returns the table's name and row count to make_features.                *)
(***************************************************************************)
C9_InsertFailureTolerated ==
    \A k \in 1..Len(tables) : \A b \in 1..3 :
        tables[k].name \in TableNames(b) =>
            /\ tables[k].passed = data.rows[b]
            /\ \E i \in 1..Len(stats) :
                  stats[i] = [name |-> tables[k].name, rows |-> Len(data.rows[b])]

\* the first of two different rows was refused and the second inserted
C9_Witness ==
    /\ pc = "written"
    /\ \E k \in 1..Len(tables) :
          /\ Len(tables[k].passed) = 2
          /\ tables[k].passed[1] # tables[k].passed[2]
          /\ tables[k].inserted = <<tables[k].passed[2]>>

(***************************************************************************)
(* C10: the list make_features returns holds one entry per non-empty       *)
(* bucket, in the order point, line, polygon, each a record of the table's *)
(* name and the size of its bucket.                                        *)
(***************************************************************************)
C10_StatsAreRecords ==
    pc = "written" =>
        /\ Len(stats) = Len(NonEmptyBuckets)
        /\ \A i \in 1..Len(stats) :
              /\ Subscriptable(stats[i])
              /\ stats[i].name \in TableNames(NonEmptyBuckets[i])
              /\ stats[i].rows = Len(data.rows[NonEmptyBuckets[i]])

====
